---- MODULE Spec2Model ----
(***************************************************************************)
(* Connection establishment in go-libp2p: the QUIC listener's accept loop  *)
(* (p2p/transport/quic/listener.go) with its hole-punch rendezvous, and    *)
(* the circuit-relay client's Dial (the client part of cache.go).          *)
(***************************************************************************)
EXTENDS Integers, Sequences, FiniteSets, TLC

\* ------------------------------------------------------------------ bounds
MaxSessions == 2        \* raw sessions the accept source hands out
MaxRecords == 1         \* hole-punch records registrants create

\* ------------------------------------------------------------- input sets
Listeners == {"l1", "l2"}
Dialers == {"d1", "d2"}
\* Multiaddresses, as their sequence of protocol components
Multiaddrs ==
  {<<"ip4", "udp", "quic-v1">>, <<"ip4", "tcp", "p2p", "p2p-circuit">>,
   <<"p2p-circuit">>}
Addrs == {"A", "B"}
Peers == {"P", "Q"}
Versions == {1, 2}
Version1 == 1
ChanCap == 1

ConnResourceLimitExceeded == 1
ConnGated == 2

NoRec == 0
NoSess == 0
Free == "free"

VARIABLES
  lis,            \* listener -> the Accept call: position and locals
  sess,           \* the raw sessions accepted so far, with what happened
  conns,          \* transport's active-connection table
  holePunching,   \* transport.holePunching: key -> record
  recs,           \* the activeHolePunch records ever created
  holePunchingMx, \* who holds transport.holePunchingMx
  gater,          \* transport.gater # nil
  dial,           \* relay client: dialer -> Dial call in progress
  cache,          \* the no-op cache's caller: what it wrote and last read
  client          \* relay client: CanDial answers and Listen results

vars ==
  <<lis, sess, conns, holePunching, recs, holePunchingMx, gater, dial, cache,
    client>>

Keys == Addrs \X Peers

\* The keys hole-punch attempts register.
HolePunchKeys == {<<"A", "P">>}

\* The key without the peer of the connection
holePunchKeyAddrOnly(s) == <<s.addr, "P">>

\* holePunchKey{addr: qconn.RemoteAddr().String(), peer: c.remotePeerID}
holePunchKey(s) == <<s.addr, s.peer>>

\* newListener: localMultiaddrs gets the quic.Version1 entry when one of the
\* listen addresses carries the QUIC v1 component, and no other entry.
newListener(hasQuicV1Addr) == IF hasQuicV1Addr THEN {Version1} ELSE {}

\* l.localMultiaddrs of a listener on a QUIC v1 address
localMultiaddrs == newListener(TRUE)

\* A raw session as reuseListener.Accept hands it out, with the bookkeeping
\* of what the listener did to it.
\*   scope   "open" when a ConnManagementScope exists for the session: from
\*           the start when quicreuse attached one to the session context
\*   done    number of Done calls on that scope
\*   peer    the identity wrapping derived from the certificate chain
\*   setPeer number of SetPeer calls, bound the peer the scope accepted
\*   conn    a conn object was built around the session
\*   closes  application codes the session was closed with
\*   acc/sec what the two gater interceptions answered, "no" if not asked
\*   seen    the record the registry lookup found, out the session's outcome
NewSession(a, pre) ==
  [addr |-> a, scope |-> IF pre THEN "open" ELSE "none", done |-> 0,
   peer |-> "none", setPeer |-> 0, bound |-> "none",
   fail |-> "none", conn |-> FALSE, localMa |-> 0,
   closes |-> <<>>, acc |-> "no", sec |-> "no",
   seen |-> NoRec, out |-> "pending"]

\* Outcomes of the calls wrapConn makes into its collaborators: the
\* negotiated version, and for each call whether it succeeds; id is the
\* peer the certificate chain yields.
\* A call that is not reached has no outcome: it is listed as succeeding.
WrapInputs ==
  {in \in [ver : Versions, addrOk : BOOLEAN, openOk : BOOLEAN,
            pubKeyOk : BOOLEAN, idOk : BOOLEAN, id : Peers,
            setPeerOk : BOOLEAN] :
     /\ ~in.addrOk => in.openOk
     /\ ~(in.addrOk /\ in.openOk) => in.pubKeyOk
     /\ ~in.pubKeyOk => in.idOk
     /\ ~in.idOk => in.setPeerOk
     /\ ~(in.pubKeyOk /\ in.idOk) => in.id = "P"
     /\ ~in.setPeerOk => in.ver = Version1}

\* connScope.SetPeer(remotePeerID)
SetPeer(s, p, ok) ==
  [s EXCEPT !.setPeer = @ + 1, !.bound = IF ok THEN p ELSE @]

\* wrapConnWithScope building the conn without the local multiaddress lookup
wrapConnWithScopeAnyVersion(s, in) ==
  IF ~in.pubKeyOk THEN [s EXCEPT !.fail = "pubkey"]
  ELSE IF ~in.idOk THEN [s EXCEPT !.fail = "peerid"]
  ELSE IF ~in.setPeerOk
    THEN [SetPeer(s, in.id, FALSE) EXCEPT !.fail = "setpeer"]
  ELSE [SetPeer(s, in.id, TRUE) EXCEPT
          !.peer = in.id, !.conn = TRUE,
          !.localMa = IF in.ver \in localMultiaddrs THEN in.ver ELSE 0]

\* listener.wrapConnWithScope
wrapConnWithScope(s, in) ==
  IF ~in.pubKeyOk THEN [s EXCEPT !.fail = "pubkey"]
  ELSE IF ~in.idOk THEN [s EXCEPT !.fail = "peerid"]
  ELSE IF ~in.setPeerOk
    THEN [SetPeer(s, in.id, FALSE) EXCEPT !.fail = "setpeer"]
  ELSE IF in.ver \notin localMultiaddrs
    THEN [SetPeer(s, in.id, TRUE) EXCEPT !.fail = "version"]
  ELSE [SetPeer(s, in.id, TRUE) EXCEPT
          !.peer = in.id, !.conn = TRUE, !.localMa = in.ver]

\* connScope.Done()
ScopeDone(s) == [s EXCEPT !.done = @ + 1]

\* wrapConn without the Done on the error path
wrapConnNoDone(s, in) ==
  IF ~in.addrOk THEN [s EXCEPT !.fail = "addr"]
  ELSE IF s.scope = "none" /\ ~in.openOk THEN [s EXCEPT !.fail = "open"]
  ELSE wrapConnWithScope([s EXCEPT !.scope = "open"], in)

\* wrapConn taking the scope first and releasing it on every error
wrapConnDoneOnAnyError(s, in) ==
  IF ~in.addrOk
    THEN IF s.scope = "open" THEN ScopeDone([s EXCEPT !.fail = "addr"])
         ELSE [s EXCEPT !.fail = "addr"]
  ELSE IF s.scope = "none" /\ ~in.openOk THEN [s EXCEPT !.fail = "open"]
  ELSE LET c == wrapConnWithScope([s EXCEPT !.scope = "open"], in)
       IN  IF c.fail # "none" THEN ScopeDone(c) ELSE c

\* listener.wrapConn
wrapConn(s, in) ==
  IF ~in.addrOk THEN [s EXCEPT !.fail = "addr"]
  ELSE IF s.scope = "none" /\ ~in.openOk THEN [s EXCEPT !.fail = "open"]
  ELSE LET c == wrapConnWithScope([s EXCEPT !.scope = "open"], in)
       IN  IF c.fail # "none" THEN ScopeDone(c) ELSE c

\* A fresh activeHolePunch: its own channel, not fulfilled.
\*   sent    every connection ever sent on connCh
\*   rcvd    what the registrant took from connCh
\*   lookups the connections whose lookup found this record, in order
NewRecord(k) ==
  [key |-> k, fulfilled |-> FALSE, connCh |-> <<>>, sent |-> <<>>,
   rcvd |-> <<>>, lookups |-> <<>>]

\* What Accept returned: a connection, an error, or nothing yet.
NoReturn == [conn |-> FALSE, err |-> FALSE]
ReturnConn == [conn |-> TRUE, err |-> FALSE]
ReturnError == [conn |-> FALSE, err |-> TRUE]

\* A relay client outside Dial, before its first call.
\*   scope  "open" once OpenConnection returned a scope, done its Done calls
\*   raw    the relayed raw connection c.dial returned, hop its hop tag
\*   upgrade the arguments Upgrade was called with
\*   fail   the step that failed, ret what Dial returned
NoUpgrade == [scope |-> "none", dir |-> "none", p |-> "none", hop |-> FALSE]

NoDial ==
  [pc |-> "idle", a |-> <<>>, p |-> "none", scope |-> "none", done |-> 0,
   setPeer |-> 0, bound |-> "none", raw |-> "none", hop |-> FALSE,
   upgrade |-> NoUpgrade, fail |-> "none",
   ret |-> [conn |-> FALSE, err |-> FALSE]]

\* The keys and values the peerstore hands to its cache; Zero is *new(V).
KeySet == {"k1", "k2", "k3"}
ValueSet == {1, 2}
Zero == 0

\* The no-op cache before any call: written is what its caller has added
\* and not removed since, the other fields are the last read and its result.
NoCalls ==
  [written |-> [k \in KeySet |-> Zero], op |-> "none", key |-> "none",
   value |-> Zero, ok |-> FALSE, keys |-> <<>>]

\* The addresses the relay client is asked about.
P_CIRCUIT == "p2p-circuit"
ClientAddrs ==
  Multiaddrs \cup
    {<<>>, <<"ip4", "tcp">>,
     <<"ip4", "udp", "quic-v1", "p2p", "p2p-circuit", "p2p">>}

\* The relay client before any CanDial or Listen call.
NoClientCalls ==
  [canDial |-> [a \in ClientAddrs |-> "none"],
   listen |-> [a \in ClientAddrs |-> "none"], listeners |-> {}]

\* A listener outside Accept; qconn, holePunch and wasHolePunch are the
\* locals of one iteration of the loop.
Idle(r) ==
  [pc |-> "idle", qconn |-> NoSess, holePunch |-> NoRec,
   wasHolePunch |-> FALSE, ret |-> r]

At(pc, qconn) ==
  [pc |-> pc, qconn |-> qconn, holePunch |-> NoRec, wasHolePunch |-> FALSE,
   ret |-> NoReturn]

Init ==
  /\ lis = [l \in Listeners |-> Idle(NoReturn)]
  /\ sess = <<>>
  /\ conns = {}
  /\ holePunching = [k \in Keys |-> NoRec]
  /\ recs = <<>>
  /\ holePunchingMx = Free
  /\ gater \in BOOLEAN
  /\ dial = [d \in Dialers |-> NoDial]
  /\ cache = NoCalls
  /\ client = NoClientCalls

\* ------------------------------------------------------ listener.Accept
\* The caller enters Accept.
CallAccept(l) ==
  /\ lis[l].pc = "idle"
  /\ lis' = [lis EXCEPT ![l] = At("accept", NoSess)]
  /\ UNCHANGED <<sess, conns, holePunching, recs, holePunchingMx, gater,
                 dial, cache, client>>

\* l.reuseListener.Accept returns an error: Accept returns it.
RawAcceptError(l) ==
  /\ lis[l].pc = "accept"
  /\ lis' = [lis EXCEPT ![l] = Idle(ReturnError)]
  /\ UNCHANGED <<sess, conns, holePunching, recs, holePunchingMx, gater,
                 dial, cache, client>>

\* qconn.CloseWithError(code, ...): the raw session is gone, what stays of
\* it is what was done to it.
CloseWithError(s, code) ==
  [s EXCEPT !.closes = Append(@, code), !.addr = "closed",
            !.peer = "none", !.bound = "none", !.localMa = 0]

\* l.transport.addConn(qconn, c)
addConn(cs, c) == cs \cup {c}

\* conn.closeWithError: the connection leaves the table, its raw session is
\* closed with the code and its scope is released.
removeConn(cs, c) == cs \ {c}

closeWithError(s, code) == ScopeDone(CloseWithError(s, code))

\* Both interceptions asked whatever the first one answers
InterceptBoth(s, acc, sec) ==
  [s EXCEPT !.acc = IF acc THEN "yes" ELSE "rejected",
            !.sec = IF sec THEN "yes" ELSE "rejected"]

\* InterceptAccept(c) && InterceptSecured(DirInbound, c.remotePeerID, c):
\* the second interception is asked only when the first one admits.
Intercept(s, acc, sec) ==
  [s EXCEPT !.acc = IF acc THEN "yes" ELSE "rejected",
            !.sec = IF ~acc THEN "no" ELSE IF sec THEN "yes" ELSE "rejected"]

\* Admission on the accept interception alone
AdmittedOnAccept(s) == s.acc = "yes"

Admitted(s) == s.acc = "yes" /\ s.sec = "yes"

\* What the gater answers; an interception that is not asked has no answer
\* and is listed as admitting.
GateInputs ==
  {g \in [acc : BOOLEAN, sec : BOOLEAN] : ~g.acc => g.sec}

\* The session after wrapConn, with the close of a failed wrap
Wrapped(s, in) ==
  LET c == wrapConn(s, in) IN
  IF c.fail # "none"
    THEN [CloseWithError(c, ConnResourceLimitExceeded) EXCEPT
            !.out = "wrapfail"]
    ELSE c

\* The gater check closing a rejected connection with the wrap failure code
GatedWithLimitCode(c, g) ==
  IF ~gater THEN c
  ELSE LET i == Intercept(c, g.acc, g.sec) IN
       IF Admitted(i) THEN i
       ELSE [closeWithError(i, ConnResourceLimitExceeded) EXCEPT
               !.out = "gated"]

\* The connection after the gater check, with the close of a rejected one
Gated(c, g) ==
  IF ~gater THEN c
  ELSE LET i == Intercept(c, g.acc, g.sec) IN
       IF Admitted(i) THEN i
       ELSE [closeWithError(i, ConnGated) EXCEPT !.out = "gated"]

\* The calls a round really makes: OpenConnection only without a scope on
\* the session, the gater only when one is set and the wrap succeeded.
Asked(pre, in, g, c) ==
  /\ pre => in.openOk
  /\ (c.out = "wrapfail" \/ ~gater) => (g.acc /\ g.sec)

\* Arrive returning the wrap error to the caller of Accept
ArriveWrapFatal(l) ==
  /\ lis[l].pc = "accept"
  /\ Len(sess) < MaxSessions
  /\ \E a \in Addrs, pre \in BOOLEAN, in \in WrapInputs, g \in GateInputs :
       LET q == Len(sess) + 1
           c == Wrapped(NewSession(a, pre), in)
       IN  /\ Asked(pre, in, g, c)
           /\ IF c.out = "wrapfail"
               THEN /\ sess' = Append(sess, c)
                    /\ lis' = [lis EXCEPT ![l] = Idle(ReturnError)]
                    /\ conns' = conns
              ELSE IF Gated(c, g).out = "gated"
               THEN /\ sess' = Append(sess, Gated(c, g))
                    /\ lis' = [lis EXCEPT ![l] = At("accept", NoSess)]
                    /\ conns' = removeConn(addConn(conns, q), q)
              ELSE /\ sess' = Append(sess, Gated(c, g))
                   /\ lis' = [lis EXCEPT ![l] = At("lock", q)]
                   /\ conns' = addConn(conns, q)
  /\ UNCHANGED <<holePunching, recs, holePunchingMx, gater, dial, cache, client>>

\* One round of the loop up to the registry: the raw accept returns a
\* session, wrapConn wraps it (or the session is closed and the loop
\* continues), the connection enters the table and passes the gater (or is
\* closed and the loop continues).
Arrive(l) ==
  /\ lis[l].pc = "accept"
  /\ Len(sess) < MaxSessions
  /\ \E a \in Addrs, pre \in BOOLEAN, in \in WrapInputs, g \in GateInputs :
       LET q == Len(sess) + 1
           c == Wrapped(NewSession(a, pre), in)
       IN  /\ Asked(pre, in, g, c)
           /\ IF c.out = "wrapfail"
               THEN /\ sess' = Append(sess, c)
                    /\ lis' = [lis EXCEPT ![l] = At("accept", NoSess)]
                    /\ conns' = conns
              ELSE IF Gated(c, g).out = "gated"
               THEN /\ sess' = Append(sess, Gated(c, g))
                    /\ lis' = [lis EXCEPT ![l] = At("accept", NoSess)]
                    /\ conns' = removeConn(addConn(conns, q), q)
              ELSE /\ sess' = Append(sess, Gated(c, g))
                   /\ lis' = [lis EXCEPT ![l] = At("lock", q)]
                   /\ conns' = addConn(conns, q)
  /\ UNCHANGED <<holePunching, recs, holePunchingMx, gater, dial, cache, client>>

\* The lookup without the test of fulfilled
MatchesIgnoringFulfilled(r) == r # NoRec

\* ok && !holePunch.fulfilled
Matches(r) == r # NoRec /\ ~recs[r].fulfilled

\* The lookup without taking the lock first
LockNoMutex(l) ==
  /\ lis[l].pc = "lock"
  /\ holePunchingMx' = l
  /\ LET r == holePunching[holePunchKey(sess[lis[l].qconn])] IN
       /\ lis' = [lis EXCEPT ![l].holePunch = r,
                             ![l].pc = IF Matches(r) THEN "send" ELSE "unlock"]
       /\ sess' = [sess EXCEPT ![lis[l].qconn].seen = r]
       /\ recs' = IF r = NoRec THEN recs
                  ELSE [recs EXCEPT ![r].lookups = Append(@, lis[l].qconn)]
  /\ UNCHANGED <<conns, holePunching, gater, dial, cache, client>>

\* l.transport.holePunchingMx.Lock() and the lookup of the key
Lock(l) ==
  /\ lis[l].pc = "lock"
  /\ holePunchingMx = Free
  /\ holePunchingMx' = l
  /\ LET r == holePunching[holePunchKey(sess[lis[l].qconn])] IN
       /\ lis' = [lis EXCEPT ![l].holePunch = r,
                             ![l].pc = IF Matches(r) THEN "send" ELSE "unlock"]
       /\ sess' = [sess EXCEPT ![lis[l].qconn].seen = r]
       /\ recs' = IF r = NoRec THEN recs
                  ELSE [recs EXCEPT ![r].lookups = Append(@, lis[l].qconn)]
  /\ UNCHANGED <<conns, holePunching, gater, dial, cache, client>>

\* The channel send goes through only when the buffer has room.
CanSend(r) == Len(recs[r].connCh) < ChanCap

\* The send without setting fulfilled
DeliveredNoFlag(rec, c) ==
  [rec EXCEPT !.connCh = Append(@, c), !.sent = Append(@, c)]

\* holePunch.connCh <- c; holePunch.fulfilled = true
Delivered(rec, c) ==
  [rec EXCEPT !.connCh = Append(@, c), !.sent = Append(@, c),
              !.fulfilled = TRUE]

\* The send followed by a delete of the record from the registry
SendRemovingRecord(l) ==
  /\ lis[l].pc = "send"
  /\ CanSend(lis[l].holePunch)
  /\ recs' = [recs EXCEPT ![lis[l].holePunch] = Delivered(@, lis[l].qconn)]
  /\ lis' = [lis EXCEPT ![l].wasHolePunch = TRUE, ![l].pc = "unlock"]
  /\ sess' = [sess EXCEPT ![lis[l].qconn].out = "delivered"]
  /\ holePunching' =
       [holePunching EXCEPT ![recs[lis[l].holePunch].key] = NoRec]
  /\ UNCHANGED <<conns, holePunchingMx, gater, dial, cache, client>>

\* The send without wasHolePunch = true
SendWithoutWasHolePunch(l) ==
  /\ lis[l].pc = "send"
  /\ CanSend(lis[l].holePunch)
  /\ recs' = [recs EXCEPT ![lis[l].holePunch] = Delivered(@, lis[l].qconn)]
  /\ lis' = [lis EXCEPT ![l].pc = "unlock"]
  /\ sess' = [sess EXCEPT ![lis[l].qconn].out = "delivered"]
  /\ UNCHANGED <<conns, holePunching, holePunchingMx, gater, dial, cache,
                 client>>

\* The send, wasHolePunch = true and the fulfilled flag
Send(l) ==
  /\ lis[l].pc = "send"
  /\ CanSend(lis[l].holePunch)
  /\ recs' = [recs EXCEPT ![lis[l].holePunch] = Delivered(@, lis[l].qconn)]
  /\ lis' = [lis EXCEPT ![l].wasHolePunch = TRUE, ![l].pc = "unlock"]
  /\ sess' = [sess EXCEPT ![lis[l].qconn].out = "delivered"]
  /\ UNCHANGED <<conns, holePunching, holePunchingMx, gater, dial, cache, client>>

\* Unlock returning the connection whether or not it was delivered
UnlockAlwaysReturns(l) ==
  /\ lis[l].pc = "unlock"
  /\ holePunchingMx' = Free
  /\ lis' = [lis EXCEPT ![l] = Idle(ReturnConn)]
  /\ sess' = [sess EXCEPT ![lis[l].qconn].out = "returned"]
  /\ UNCHANGED <<conns, holePunching, recs, gater, dial, cache, client>>

\* Unlock; then continue the loop after a delivery, else return c, nil.
Unlock(l) ==
  /\ lis[l].pc = "unlock"
  /\ holePunchingMx' = Free
  /\ IF lis[l].wasHolePunch
       THEN /\ lis' = [lis EXCEPT ![l] = At("accept", NoSess)]
            /\ sess' = sess
       ELSE /\ lis' = [lis EXCEPT ![l] = Idle(ReturnConn)]
            /\ sess' = [sess EXCEPT ![lis[l].qconn].out = "returned"]
  /\ UNCHANGED <<conns, holePunching, recs, gater, dial, cache, client>>

\* ------------------------------------- registrants of the hole-punch table
\* An outbound hole-punch attempt registers a record for its key.
Register(k) ==
  /\ holePunchingMx = Free
  /\ holePunching[k] = NoRec
  /\ Len(recs) < MaxRecords
  /\ recs' = Append(recs, NewRecord(k))
  /\ holePunching' = [holePunching EXCEPT ![k] = Len(recs) + 1]
  /\ UNCHANGED <<lis, sess, conns, holePunchingMx, gater, dial, cache, client>>

\* The attempt takes the connection from its channel.
Receive(k) ==
  /\ holePunching[k] # NoRec
  /\ recs[holePunching[k]].connCh # <<>>
  /\ recs' = [recs EXCEPT ![holePunching[k]] =
        [@ EXCEPT !.rcvd = Append(@, Head(recs[holePunching[k]].connCh)),
                  !.connCh = Tail(@)]]
  /\ UNCHANGED <<lis, sess, conns, holePunching, holePunchingMx, gater,
                 dial, cache, client>>

\* The attempt ends (consumed or timed out) and removes its record.
Remove(k) ==
  /\ holePunchingMx = Free
  /\ holePunching[k] # NoRec
  /\ holePunching' = [holePunching EXCEPT ![k] = NoRec]
  /\ UNCHANGED <<lis, sess, conns, recs, holePunchingMx, gater, dial, cache, client>>

ListenerStep(l) ==
  \/ CallAccept(l) \/ Arrive(l) \/ RawAcceptError(l)
  \/ Lock(l) \/ Send(l) \/ Unlock(l)

Next ==
  \/ \E l \in Listeners : ListenerStep(l)
  \/ \E k \in HolePunchKeys : Register(k) \/ Receive(k) \/ Remove(k)

Spec == Init /\ [][Next]_vars

\* ---------------------------------------------------------- Client.Dial
lvars ==
  <<lis, sess, conns, holePunching, recs, holePunchingMx, gater, cache,
    client>>

\* Dial(ctx, a, p) is called.
CallDial(d) ==
  /\ dial[d].pc = "idle"
  /\ \E a \in Multiaddrs, p \in Peers :
        dial' = [dial EXCEPT ![d] = [NoDial EXCEPT !.pc = "open", !.a = a,
                                                   !.p = p]]
  /\ UNCHANGED lvars

\* What Dial returns with an error: no connection.
DialError(c, step) ==
  [c EXCEPT !.pc = "idle", !.fail = step,
            !.ret = [conn |-> FALSE, err |-> TRUE]]

\* ResourceManager().OpenConnection(DirOutbound, false, a); on an error
\* Dial returns it.
OpenConnection(d) ==
  /\ dial[d].pc = "open"
  /\ \E ok \in BOOLEAN :
        dial' = [dial EXCEPT ![d] =
          IF ok THEN [@ EXCEPT !.scope = "open", !.pc = "setpeer"]
          ELSE DialError(@, "open")]
  /\ UNCHANGED lvars

\* SetPeer with its error dropped: the raw dial follows in any case
DialSetPeerIgnoringError(d) ==
  /\ dial[d].pc = "setpeer"
  /\ \E ok \in BOOLEAN :
        dial' = [dial EXCEPT ![d] =
          [SetPeer(@, dial[d].p, ok) EXCEPT !.pc = "dial"]]
  /\ UNCHANGED lvars

\* dialAndUpgrade: connScope.SetPeer(p)
DialSetPeer(d) ==
  /\ dial[d].pc = "setpeer"
  /\ \E ok \in BOOLEAN :
        dial' = [dial EXCEPT ![d] =
          IF ok THEN [SetPeer(@, dial[d].p, TRUE) EXCEPT !.pc = "dial"]
          ELSE [SetPeer(@, dial[d].p, FALSE) EXCEPT
                  !.pc = "failed", !.fail = "setpeer"]]
  /\ UNCHANGED lvars

\* dialAndUpgrade: conn, err := c.dial(ctx, a, p)
RawDial(d) ==
  /\ dial[d].pc = "dial"
  /\ \E ok \in BOOLEAN :
        dial' = [dial EXCEPT ![d] =
          IF ok THEN [@ EXCEPT !.raw = "open", !.pc = "taghop"]
          ELSE [@ EXCEPT !.pc = "failed", !.fail = "dial"]]
  /\ UNCHANGED lvars

\* dialAndUpgrade: conn.tagHop()
TagHop(d) ==
  /\ dial[d].pc = "taghop"
  /\ dial' = [dial EXCEPT ![d].hop = TRUE, ![d].pc = "upgrade"]
  /\ UNCHANGED lvars

\* The arguments of c.upgrader.Upgrade(ctx, c, conn, DirOutbound, p, connScope)
UpgradeArgs(c) ==
  [scope |-> c.scope, dir |-> "outbound", p |-> c.p, hop |-> c.hop]

\* Upgrader.Upgrade: a CapableConn or an error.
Upgraded(c, ok) ==
  IF ok
    THEN [c EXCEPT !.pc = "idle", !.ret = [conn |-> TRUE, err |-> FALSE]]
    ELSE [c EXCEPT !.pc = "failed", !.fail = "upgrade"]

\* dialAndUpgrade: the Upgrade call; when it succeeds dialAndUpgrade and
\* Dial return the connection.
Upgrade(d) ==
  /\ dial[d].pc = "upgrade"
  /\ \E ok \in BOOLEAN :
        dial' = [dial EXCEPT ![d] =
          Upgraded([@ EXCEPT !.upgrade = UpgradeArgs(dial[d])], ok)]
  /\ UNCHANGED lvars

\* Dial returning the error of dialAndUpgrade without the Done
DialFailedNoDone(d) ==
  /\ dial[d].pc = "failed"
  /\ dial' = [dial EXCEPT ![d] = DialError(@, dial[d].fail)]
  /\ UNCHANGED lvars

\* Dial, after dialAndUpgrade returned an error: connScope.Done() and the
\* error is returned.
DialFailed(d) ==
  /\ dial[d].pc = "failed"
  /\ dial' = [dial EXCEPT ![d] = DialError(ScopeDone(@), dial[d].fail)]
  /\ UNCHANGED lvars

DialNext ==
  \E d \in Dialers :
    \/ CallDial(d) \/ OpenConnection(d) \/ DialSetPeer(d) \/ RawDial(d)
    \/ TagHop(d) \/ Upgrade(d) \/ DialFailed(d)

DialSpec == Init /\ [][DialNext]_vars

\* --------------------------------------------------------------- noopCache
\* noopCache.Get returning what was added
noopCacheGetStored(c, key) ==
  [value |-> c.written[key], ok |-> c.written[key] # Zero]

\* func (*noopCache[K, V]) Get(_ K) (value V, ok bool)
noopCacheGet(c, key) == [value |-> Zero, ok |-> FALSE]

\* func (*noopCache[K, V]) Peek(_ K) (value V, ok bool)
noopCachePeek(c, key) == [value |-> Zero, ok |-> FALSE]

\* func (*noopCache[K, V]) Contains(_ K) bool
noopCacheContains(c, key) == FALSE

\* func (*noopCache[K, V]) Keys() (keys []K): the nil slice
noopCacheKeys(c) == <<>>

\* A read's result as the caller sees it
Read(c, op, key, r) ==
  [c EXCEPT !.op = op, !.key = key, !.value = r.value, !.ok = r.ok,
            !.keys = r.keys]

\* Add and Remove have empty bodies: the caller's writes are all that change.
CallAdd(key, value) ==
  /\ cache' = [cache EXCEPT !.written[key] = value]
  /\ UNCHANGED <<lis, sess, conns, holePunching, recs, holePunchingMx,
                 gater, dial, client>>

CallRemove(key) ==
  /\ cache' = [cache EXCEPT !.written[key] = Zero]
  /\ UNCHANGED <<lis, sess, conns, holePunching, recs, holePunchingMx,
                 gater, dial, client>>

CallGet(key) ==
  /\ LET r == noopCacheGet(cache, key) IN
       cache' = Read(cache, "Get", key,
                     [value |-> r.value, ok |-> r.ok, keys |-> <<>>])
  /\ UNCHANGED <<lis, sess, conns, holePunching, recs, holePunchingMx,
                 gater, dial, client>>

CallPeek(key) ==
  /\ LET r == noopCachePeek(cache, key) IN
       cache' = Read(cache, "Peek", key,
                     [value |-> r.value, ok |-> r.ok, keys |-> <<>>])
  /\ UNCHANGED <<lis, sess, conns, holePunching, recs, holePunchingMx,
                 gater, dial, client>>

CallContains(key) ==
  /\ cache' = Read(cache, "Contains", key,
                   [value |-> Zero, ok |-> noopCacheContains(cache, key),
                    keys |-> <<>>])
  /\ UNCHANGED <<lis, sess, conns, holePunching, recs, holePunchingMx,
                 gater, dial, client>>

CallKeys ==
  /\ cache' = Read(cache, "Keys", "none",
                   [value |-> Zero, ok |-> FALSE,
                    keys |-> noopCacheKeys(cache)])
  /\ UNCHANGED <<lis, sess, conns, holePunching, recs, holePunchingMx,
                 gater, dial, client>>

CacheNext ==
  \/ \E key \in KeySet, value \in ValueSet : CallAdd(key, value)
  \/ \E key \in KeySet :
       CallRemove(key) \/ CallGet(key) \/ CallPeek(key) \/ CallContains(key)
  \/ CallKeys

CacheSpec == Init /\ [][CacheNext]_vars

\* ----------------------------------------------- Client.CanDial and Listen
\* addr.ValueForProtocol(code): the value of the first component with that
\* code, or ErrProtocolNotFound.
RECURSIVE ValueForProtocol(_, _)
ValueForProtocol(addr, code) ==
  IF addr = <<>> THEN [value |-> "", err |-> TRUE]
  ELSE IF Head(addr) = code THEN [value |-> "", err |-> FALSE]
  ELSE ValueForProtocol(Tail(addr), code)

\* func (c *Client) CanDial(addr ma.Multiaddr) bool
CanDial(addr) == ~ValueForProtocol(addr, P_CIRCUIT).err

\* Listen without the test of the address
ListenAnyAddr(addr) == [listener |-> TRUE, err |-> FALSE]

\* func (c *Client) Listen(addr ma.Multiaddr) (transport.Listener, error)
Listen(addr) ==
  IF ValueForProtocol(addr, P_CIRCUIT).err
    THEN [listener |-> FALSE, err |-> TRUE]
    ELSE [listener |-> TRUE, err |-> FALSE]

CallCanDial(addr) ==
  /\ client' = [client EXCEPT
                  !.canDial[addr] = IF CanDial(addr) THEN "true" ELSE "false"]
  /\ UNCHANGED <<lis, sess, conns, holePunching, recs, holePunchingMx,
                 gater, dial, cache>>

CallListen(addr) ==
  /\ LET r == Listen(addr) IN
       client' = [client EXCEPT
                    !.listen[addr] = IF r.err THEN "err" ELSE "ok",
                    !.listeners = IF r.listener THEN @ \cup {addr} ELSE @]
  /\ UNCHANGED <<lis, sess, conns, holePunching, recs, holePunchingMx,
                 gater, dial, cache>>

ClientNext == \E addr \in ClientAddrs : CallCanDial(addr) \/ CallListen(addr)

ClientSpec == Init /\ [][ClientNext]_vars

\* =================================================================== claims
Sessions == 1..Len(sess)
Records == 1..Len(recs)
StepB == {"pubkey", "peerid", "setpeer", "version"}
StepA == {"addr", "open"}

\* C1: in wrapConn, a failure after the scope was acquired calls Done on it
\* exactly once before the error is returned; a successful wrap calls Done
\* zero times and leaves the scope with the connection; no scope is ever
\* released more than once.
C1_ScopeReleasedOnce ==
  \A i \in Sessions :
    /\ sess[i].done <= 1
    /\ sess[i].fail \in StepB => sess[i].scope = "open" /\ sess[i].done = 1
    /\ sess[i].conn =>
         /\ sess[i].scope = "open"
         /\ sess[i].fail = "none"
         /\ sess[i].done = IF sess[i].out = "gated" THEN 1 ELSE 0

C1_Witness ==
  /\ \E i \in Sessions : sess[i].fail = "version" /\ sess[i].done = 1
  /\ \E i \in Sessions : sess[i].conn /\ sess[i].done = 0

\* C2: Dial calls Done never when OpenConnection fails, exactly once when
\* SetPeer, the raw dial or Upgrade fails (and then returns an error and no
\* connection), and not at all when it returns a connection; it never
\* returns both a connection and an error, and never calls Done twice.
C2_DialReleasesOnFailure ==
  \A d \in Dialers :
    /\ dial[d].done <= 1
    /\ ~(dial[d].ret.conn /\ dial[d].ret.err)
    /\ dial[d].ret.err <=> dial[d].pc = "idle" /\ dial[d].fail # "none"
    /\ dial[d].ret.err /\ dial[d].fail = "open" =>
         dial[d].scope = "none" /\ dial[d].done = 0
    /\ dial[d].ret.err /\ dial[d].fail \in {"setpeer", "dial", "upgrade"} =>
         dial[d].scope = "open" /\ dial[d].done = 1
    /\ dial[d].ret.conn =>
         dial[d].scope = "open" /\ dial[d].done = 0 /\ dial[d].fail = "none"
    /\ dial[d].pc # "idle" => dial[d].done = 0

C2_Witness ==
  /\ \E d \in Dialers : dial[d].ret.err /\ dial[d].fail = "upgrade"
  /\ \E d \in Dialers : dial[d].ret.conn

\* C3: at most one connection is ever sent on the channel of a record: the
\* check of fulfilled, the send and the setting of fulfilled happen under
\* the registry lock, and a fulfilled record is never sent to again.
C3_OneDeliveryPerRecord ==
  /\ \A r \in Records :
       /\ Len(recs[r].sent) <= 1
       /\ recs[r].fulfilled <=> Len(recs[r].sent) = 1
       /\ recs[r].fulfilled =>
            \A l \in Listeners :
              ~(lis[l].pc = "send" /\ lis[l].holePunch = r)
  /\ \A l \in Listeners :
       lis[l].pc \in {"send", "unlock"} <=> holePunchingMx = l

C3_Witness ==
  \E r \in Records :
    /\ Len(recs[r].sent) = 1
    /\ Len(recs[r].lookups) >= 2
    /\ \E l \in Listeners :
         lis[l].pc = "unlock" /\ lis[l].holePunch = r /\ ~lis[l].wasHolePunch

\* C4: of the sessions that find a record at the lookup, the first is sent
\* on the record's channel, the record becomes fulfilled and Accept does not
\* return that connection; a later one is returned from Accept as an
\* ordinary inbound connection with the record's peer as remote peer.
Surfaced == {"delivered", "returned"}

C4_FirstDeliveredSecondReturned ==
  \A r \in Records :
    \A n \in 1..Len(recs[r].lookups) :
      LET c == recs[r].lookups[n] IN
        /\ holePunchKey(sess[c]) = recs[r].key
        /\ (n = 1 /\ sess[c].out \in Surfaced) =>
              /\ sess[c].out = "delivered"
              /\ recs[r].sent = <<c>>
              /\ recs[r].fulfilled
              /\ c \in conns
        /\ (n > 1 /\ sess[c].out \in Surfaced) =>
              /\ sess[c].out = "returned"
              /\ sess[c].peer = recs[r].key[2]
              /\ sess[c].closes = <<>>
              /\ c \in conns

C4_Witness ==
  \E r \in Records :
    /\ Len(recs[r].lookups) >= 2
    /\ sess[recs[r].lookups[1]].out = "delivered"
    /\ sess[recs[r].lookups[2]].out = "returned"
    /\ \E l \in Listeners : lis[l].pc = "idle" /\ lis[l].ret.conn

\* C5 as stated: of the connections matching the key of a registered record,
\* at most one is ever handed to the dialer or returned from Accept.
SurfacedFor(r) ==
  {i \in Sessions : sess[i].seen = r /\ sess[i].out \in Surfaced}

C5_AtMostOneObservable ==
  \A r \in Records : Cardinality(SurfacedFor(r)) <= 1

\* C5, amended: of the connections matching the key of a registered record,
\* at most one is handed to the waiting hole-punch dialer through that
\* record; every other one that surfaces is returned from Accept.
HandedOver(r) == {i \in Sessions : sess[i].seen = r /\ sess[i].out = "delivered"}

InChannel(r) ==
  {recs[r].connCh[n] : n \in 1..Len(recs[r].connCh)}
    \cup {recs[r].rcvd[n] : n \in 1..Len(recs[r].rcvd)}

C5_AtMostOneHandedOver ==
  \A r \in Records :
    /\ Cardinality(HandedOver(r)) <= 1
    /\ Len(recs[r].connCh) + Len(recs[r].rcvd) <= 1
    /\ InChannel(r) = HandedOver(r)
    /\ \A i \in SurfacedFor(r) \ HandedOver(r) : sess[i].out = "returned"

C5_Witness ==
  \E r \in Records :
    /\ Len(recs[r].rcvd) = 1
    /\ Cardinality(SurfacedFor(r)) >= 2

\* C6: with a gater that rejects every connection, Accept never returns a
\* connection and no record receives a delivery or becomes fulfilled; the
\* gating decision precedes the registry lookup, and every rejected
\* connection is closed with the gated code.
Consulted(s) == s.acc # "no"
Rejected(s) == s.acc = "rejected" \/ s.sec = "rejected"
RejectsAll == gater /\ \A i \in Sessions : Consulted(sess[i]) => Rejected(sess[i])

C6_RejectingGaterBlocksAll ==
  RejectsAll =>
    /\ \A i \in Sessions : sess[i].out \notin Surfaced /\ sess[i].seen = NoRec
    /\ \A l \in Listeners :
         ~lis[l].ret.conn /\ lis[l].pc \notin {"lock", "send", "unlock"}
    /\ \A r \in Records :
         ~recs[r].fulfilled /\ recs[r].sent = <<>> /\ recs[r].lookups = <<>>
    /\ \A i \in Sessions :
         Consulted(sess[i]) =>
           /\ sess[i].out = "gated"
           /\ sess[i].closes = <<ConnGated>>
           /\ i \notin conns

C6_Witness ==
  /\ RejectsAll
  /\ \E i \in Sessions : sess[i].acc = "rejected"
  /\ \E i \in Sessions : sess[i].sec = "rejected"
  /\ \E k \in Keys : holePunching[k] # NoRec

\* C7: Accept returns an error exactly when the raw accept returned one, and
\* then without a connection; a failed wrap or a gating rejection closes the
\* session and goes on to the next raw accept instead of returning.
Returns(l) == lis[l].pc # "idle" /\ lis'[l].pc = "idle"
Taken == Len(sess') = Len(sess) + 1

C7_OnlyRawAcceptErrorIsFatal ==
  [][/\ \A l \in Listeners :
          Returns(l) =>
            /\ lis'[l].ret.err <=> (lis[l].pc = "accept" /\ sess' = sess)
            /\ lis'[l].ret.err => ~lis'[l].ret.conn
            /\ ~lis'[l].ret.err =>
                 /\ lis'[l].ret.conn
                 /\ sess[lis[l].qconn].out = "pending"
                 /\ sess'[lis[l].qconn].out = "returned"
     /\ Taken =>
          LET c == sess'[Len(sess')] IN
          /\ \A l \in Listeners : ~Returns(l)
          /\ \/ /\ c.out \in {"wrapfail", "gated"}
                /\ Len(c.closes) = 1
                /\ lis' = lis
             \/ /\ c.out = "pending"
                /\ c.closes = <<>>
                /\ \E l \in Listeners :
                     /\ lis[l].pc = "accept"
                     /\ lis'[l] = At("lock", Len(sess'))]_vars

C7_Witness ==
  /\ \E l \in Listeners : lis[l].pc = "idle" /\ lis[l].ret.err
  /\ \E i \in Sessions : sess[i].out = "wrapfail"
  /\ \E i \in Sessions : sess[i].out = "gated"

\* The scheduler runs every runnable step of an accept loop, and the mutex
\* hands the lock to a waiter that keeps finding it free.
FairSpec ==
  /\ Spec
  /\ \A l \in Listeners :
       WF_vars(Send(l)) /\ WF_vars(Unlock(l)) /\ SF_vars(Lock(l))

\* C8: with a channel of capacity at least 1 per record, the send Accept
\* performs under the registry lock never blocks, so the lock is always
\* released again and no accept loop waits for it forever.
C8_SendNeverBlocks ==
  /\ [](\A l \in Listeners : lis[l].pc = "send" => CanSend(lis[l].holePunch))
  /\ \A l \in Listeners :
       /\ (holePunchingMx = l) ~> (holePunchingMx = Free)
       /\ (lis[l].pc = "lock") ~> (holePunchingMx = l)

C8_Witness ==
  \E l \in Listeners, m \in Listeners :
    /\ lis[l].pc = "send"
    /\ recs[lis[l].holePunch].rcvd = <<>>
    /\ lis[m].pc = "lock"

\* C9: whenever Dial or the listener's wrap step ends in an error, the
\* attempt's scope has been released and its raw session is closed.
C9_ErrorLeavesNothingBehind ==
  /\ \A d \in Dialers :
       dial[d].ret.err =>
         /\ dial[d].scope = "open" => dial[d].done = 1
         /\ dial[d].raw # "open"
  /\ \A i \in Sessions :
       sess[i].out = "wrapfail" =>
         /\ sess[i].scope = "open" => sess[i].done = 1
         /\ sess[i].closes # <<>>

\* C10: a failure in step A of wrapping (address derivation, OpenConnection)
\* has no side effect: no Done, no SetPeer, no connection object, nothing
\* added to the connection table, registry unchanged; also when the session
\* carries a pre-attached scope and the address derivation fails.
C10_StepAFailureHasNoEffect ==
  [][(Taken /\ sess'[Len(sess')].fail \in StepA) =>
       LET a == sess'[Len(sess')] IN
       /\ a.done = 0 /\ a.setPeer = 0 /\ a.bound = "none" /\ ~a.conn
       /\ a.fail = "open" => a.scope = "none"
       /\ conns' = conns
       /\ holePunching' = holePunching /\ recs' = recs
       /\ \A i \in Sessions : sess'[i] = sess[i]]_vars

C10_Witness ==
  /\ \E i \in Sessions :
       sess[i].fail = "addr" /\ sess[i].scope = "open" /\ sess[i].done = 0
  /\ \E i \in Sessions : sess[i].fail = "open"

\* C11: the no-op cache answers every read with "absent", whatever was added
\* or removed before: Get and Peek return (zero value, false), Contains
\* returns false and Keys is empty.
C11_NoopCacheAlwaysAbsent ==
  /\ cache.op \in {"Get", "Peek"} => (cache.value = Zero /\ ~cache.ok)
  /\ cache.op = "Contains" => ~cache.ok
  /\ cache.op = "Keys" => cache.keys = <<>>

C11_Witness ==
  /\ cache.op = "Get"
  /\ cache.written[cache.key] # Zero
  /\ \E k \in KeySet : k # cache.key /\ cache.written[k] # Zero

\* C12: CanDial(addr) is true exactly for the addresses with a circuit-relay
\* component; Listen(addr) fails, creating no listener, exactly for the
\* addresses without one; so Listen succeeds iff CanDial is true.
HasCircuit(addr) == \E i \in 1..Len(addr) : addr[i] = P_CIRCUIT

C12_CanDialIffCircuit ==
  \A a \in ClientAddrs :
    /\ client.canDial[a] # "none" =>
         (client.canDial[a] = "true" <=> HasCircuit(a))
    /\ client.listen[a] # "none" =>
         (client.listen[a] = "err" <=> ~HasCircuit(a))
    /\ a \in client.listeners <=> client.listen[a] = "ok"
    /\ (client.canDial[a] # "none" /\ client.listen[a] # "none") =>
         (client.listen[a] = "ok" <=> client.canDial[a] = "true")

C12_Witness ==
  /\ \E a \in ClientAddrs :
       /\ Len(a) > 1 /\ a[1] # P_CIRCUIT
       /\ client.canDial[a] = "true" /\ client.listen[a] = "ok"
  /\ \E a \in ClientAddrs :
       /\ a # <<>>
       /\ client.canDial[a] = "false" /\ client.listen[a] = "err"
       /\ a \notin client.listeners

\* C13: a step of Accept never adds a record to the registry nor removes
\* one; the only change it makes to a record is setting fulfilled, from
\* false to true, on the registered record found under the key of the
\* connection it delivers. Every other record keeps its key, its flag and
\* its channel, and fulfilled never goes back to false.
ListenerActs == lis' # lis \/ sess' # sess

C13_AcceptOnlyFulfils ==
  [][ListenerActs =>
       /\ holePunching' = holePunching
       /\ Len(recs') = Len(recs)
       /\ \A r \in Records :
            /\ recs'[r].key = recs[r].key
            /\ recs[r].fulfilled => recs'[r].fulfilled
            /\ recs'[r].fulfilled # recs[r].fulfilled =>
                 \E l \in Listeners :
                   /\ lis[l].pc = "send" /\ lis[l].holePunch = r
                   /\ lis'[l].wasHolePunch
                   /\ recs[r].key = holePunchKey(sess[lis[l].qconn])
                   /\ holePunching[recs[r].key] = r
                   /\ \A q \in Records \ {r} :
                        recs'[q].fulfilled = recs[q].fulfilled
            /\ recs'[r].fulfilled = recs[r].fulfilled =>
                 /\ recs'[r].connCh = recs[r].connCh
                 /\ recs'[r].sent = recs[r].sent]_vars

C13_Witness ==
  \E r \in Records :
    /\ recs[r].fulfilled
    /\ holePunching[recs[r].key] = r
    /\ \E i \in Sessions :
         /\ sess[i].out = "returned"
         /\ holePunchKey(sess[i]) # recs[r].key
    /\ \E i \in Sessions : sess[i].out = "delivered" /\ sess[i].seen = r

\* C14: a connection delivered to a record whose registrant then removes
\* the record without receiving from its channel is lost: no Accept call
\* returns it, the listener never closes it, its scope is never released,
\* and nothing afterwards changes that.
Lost(i) ==
  \E r \in Records :
    /\ recs[r].sent = <<i>>
    /\ recs[r].rcvd = <<>>
    /\ holePunching[recs[r].key] # r

C14_DeliveredCanBeLost ==
  /\ [](\A i \in Sessions :
          Lost(i) =>
            /\ sess[i].out = "delivered"
            /\ sess[i].closes = <<>>
            /\ sess[i].scope = "open" /\ sess[i].done = 0
            /\ i \in conns)
  /\ [][\A i \in Sessions :
          Lost(i) => (Lost(i)' /\ sess'[i] = sess[i] /\ i \in conns')]_vars

C14_Witness ==
  /\ \E i \in Sessions : Lost(i)
  /\ \A l \in Listeners : lis[l].pc = "idle"

\* C15: dialAndUpgrade runs SetPeer, the raw dial, the hop tag and Upgrade
\* in that order, each only after the one before succeeded: no raw dial
\* after a rejected SetPeer, no Upgrade after a failed raw dial, and Upgrade
\* gets the scope Dial opened, direction outbound, the target peer and a
\* raw connection already tagged as a hop.
C15_DialStepsInOrder ==
  \A d \in Dialers :
    LET c == dial[d] IN
    /\ c.setPeer <= 1
    /\ c.setPeer = 1 => c.scope = "open"
    /\ c.raw # "none" => (c.setPeer = 1 /\ c.bound = c.p)
    /\ c.fail = "setpeer" =>
         (c.setPeer = 1 /\ c.raw = "none" /\ ~c.hop /\ c.upgrade = NoUpgrade)
    /\ c.fail = "dial" =>
         (c.raw = "none" /\ ~c.hop /\ c.upgrade = NoUpgrade)
    /\ c.hop => c.raw = "open"
    /\ c.upgrade # NoUpgrade =>
         /\ c.upgrade = [scope |-> "open", dir |-> "outbound", p |-> c.p,
                         hop |-> TRUE]
         /\ c.upgrade.scope = c.scope
         /\ c.raw = "open" /\ c.hop
    /\ (c.ret.conn \/ c.fail = "upgrade") => c.upgrade # NoUpgrade

C15_Witness ==
  /\ \E d \in Dialers : dial[d].fail = "setpeer" /\ dial[d].ret.err
  /\ \E d \in Dialers : dial[d].upgrade # NoUpgrade /\ dial[d].p = "Q"

\* C16: the listener closes a session with at most one application code,
\* and the code tells the cause: resource-limit-exceeded after a failed
\* wrap, gated after a gater rejection; a connection that is returned or
\* delivered is not closed by the listener.
C16_CloseCodeTellsCause ==
  \A i \in Sessions :
    /\ Len(sess[i].closes) <= 1
    /\ sess[i].fail # "none" <=> sess[i].out = "wrapfail"
    /\ Rejected(sess[i]) <=> sess[i].out = "gated"
    /\ sess[i].out = "wrapfail" =>
         sess[i].closes = <<ConnResourceLimitExceeded>>
    /\ sess[i].out = "gated" => sess[i].closes = <<ConnGated>>
    /\ sess[i].out \in Surfaced \cup {"pending"} => sess[i].closes = <<>>

C16_Witness ==
  /\ \E i \in Sessions :
       sess[i].fail = "pubkey" /\ sess[i].closes = <<ConnResourceLimitExceeded>>
  /\ \E i \in Sessions :
       sess[i].sec = "rejected" /\ sess[i].closes = <<ConnGated>>

\* C17 as stated: with a gater, both interceptions are evaluated for every
\* wrapped connection, also the post-security one for a connection the
\* accept interception rejects, and the connection is rejected if either
\* rejects.
C17_BothInterceptionsEvaluated ==
  \A i \in Sessions :
    (gater /\ sess[i].conn) =>
      /\ sess[i].acc # "no" /\ sess[i].sec # "no"
      /\ sess[i].out = "gated" <=> Rejected(sess[i])

\* C17, amended: with a gater, the accept interception is evaluated for
\* every wrapped connection and the post-security interception exactly for
\* those the accept interception admits; the connection is rejected if an
\* evaluated interception rejects. Without a gater, or after a failed wrap,
\* none is evaluated.
C17_SecuredAskedOnlyAfterAccept ==
  \A i \in Sessions :
    /\ (gater /\ sess[i].conn) =>
         /\ sess[i].acc \in {"yes", "rejected"}
         /\ sess[i].sec # "no" <=> sess[i].acc = "yes"
         /\ sess[i].out = "gated" <=> Rejected(sess[i])
    /\ ~(gater /\ sess[i].conn) =>
         /\ sess[i].acc = "no" /\ sess[i].sec = "no"
         /\ sess[i].out # "gated"

C17_Witness ==
  /\ gater
  /\ \E i \in Sessions :
       sess[i].conn /\ sess[i].acc = "rejected" /\ sess[i].sec = "no"
  /\ \E i \in Sessions : sess[i].acc = "yes" /\ sess[i].sec = "yes"

\* C18: a session taken from the raw accept source gets exactly one
\* outcome, which is final: closed after a wrap failure, closed after a
\* gater rejection, delivered to exactly one record, or returned from
\* Accept; none is both delivered and returned or delivered twice, and a
\* call of Accept returns one connection at most.
DeliveredTo(i) ==
  {r \in Records : \E n \in 1..Len(recs[r].sent) : recs[r].sent[n] = i}

Holding(i) == {l \in Listeners : lis[l].qconn = i}

C18_OneOutcomePerSession ==
  /\ [](\A i \in Sessions :
          /\ sess[i].out \in
               {"pending", "wrapfail", "gated", "delivered", "returned"}
          /\ Cardinality(DeliveredTo(i)) <= 1
          /\ \A r \in DeliveredTo(i) : recs[r].sent = <<i>>
          /\ sess[i].out = "delivered" <=> DeliveredTo(i) # {}
          /\ sess[i].out = "pending" <=>
               \E l \in Holding(i) : ~lis[l].wasHolePunch
          /\ Cardinality(Holding(i)) <= 1)
  /\ [][/\ \A i \in Sessions :
             sess[i].out # "pending" => sess'[i].out = sess[i].out
        /\ Cardinality({i \in Sessions : sess[i].out # "returned"
                                          /\ sess'[i].out = "returned"}) <= 1
        /\ \A l \in Listeners :
             (lis[l].pc # "idle" /\ lis'[l].pc = "idle" /\ lis'[l].ret.conn)
               => /\ sess[lis[l].qconn].out = "pending"
                  /\ sess'[lis[l].qconn].out = "returned"
                  /\ \A m \in Listeners \ {l} : lis'[m] = lis[m]]_vars

C18_Witness ==
  /\ \E i \in Sessions : sess[i].out = "delivered"
  /\ \E i \in Sessions : sess[i].out = "returned" /\ sess[i].seen # NoRec
  /\ \E l \in Listeners : lis[l].pc = "idle" /\ lis[l].ret.conn
  /\ \E r \in Records : recs[r].rcvd # <<>>

\* C19: a connection is sent only to the record registered under its own
\* key (remote address, remote peer); a connection that differs from a
\* registered unfulfilled record in the peer or in the address finds no
\* record, leaves that one unfulfilled and is returned from Accept.
OwnKey(i, r) == recs[r].key = <<sess[i].addr, sess[i].peer>>

C19_DeliveredOnlyUnderOwnKey ==
  \A i \in Sessions :
    /\ \A r \in DeliveredTo(i) : OwnKey(i, r)
    /\ sess[i].seen # NoRec => OwnKey(i, sess[i].seen)
    /\ (sess[i].out \in Surfaced /\ \A r \in Records : ~OwnKey(i, r)) =>
         /\ sess[i].out = "returned"
         /\ sess[i].seen = NoRec
         /\ DeliveredTo(i) = {}

C19_Witness ==
  \E r \in Records :
    /\ holePunching[recs[r].key] = r
    /\ ~recs[r].fulfilled /\ recs[r].sent = <<>>
    /\ \E i \in Sessions :
         /\ sess[i].out = "returned"
         /\ sess[i].addr = recs[r].key[1] /\ sess[i].peer # recs[r].key[2]
    /\ \E i \in Sessions :
         /\ sess[i].out = "returned"
         /\ sess[i].addr # recs[r].key[1] /\ sess[i].peer = recs[r].key[2]

\* C20: a connection returned from Accept or delivered to a record holds a
\* scope on which SetPeer succeeded with the connection's remote peer, a
\* local multiaddress resolved for the negotiated version, and a release
\* count of 0; no conn is built for a session whose SetPeer was rejected or
\* whose version has no local multiaddress.
C20_SurfacedConnIsComplete ==
  \A i \in Sessions :
    /\ sess[i].out \in Surfaced \cup {"pending"} =>
         /\ sess[i].conn /\ sess[i].fail = "none"
         /\ sess[i].scope = "open" /\ sess[i].done = 0
         /\ sess[i].setPeer = 1
         /\ sess[i].peer \in Peers /\ sess[i].bound = sess[i].peer
         /\ sess[i].localMa \in localMultiaddrs
    /\ sess[i].fail \in {"setpeer", "version"} =>
         /\ ~sess[i].conn /\ sess[i].setPeer = 1
         /\ sess[i].out = "wrapfail"
    /\ sess[i].conn => (sess[i].fail = "none" /\ sess[i].setPeer = 1)

C20_Witness ==
  /\ \E i \in Sessions :
       sess[i].out = "returned" /\ sess[i].peer = "Q" /\ sess[i].done = 0
  /\ \E i \in Sessions : sess[i].fail = "setpeer"

====
